---- MODULE Spec2Model ----
(***************************************************************************)
(* Model of vk_mini_path_tracer/_edit/main.cpp: a single-shot GPU ray      *)
(* tracer.  The host thread runs main() top to bottom; the device queue    *)
(* executes submitted batches asynchronously.  Every step of main() is one *)
(* action, and `pc` is the position of the host thread.                    *)
(***************************************************************************)
EXTENDS Integers, Sequences, FiniteSets, TLC

\* ------------------------------------------------------------------------
\* Bounds of the model (not program constants)
\* ------------------------------------------------------------------------
MaxVerts == 1       \* an OBJ file holds 0..MaxVerts vertices
MaxTris == 1        \* a shape holds 0..MaxTris triangles
MaxShapes == 2      \* an OBJ file holds 0..MaxShapes shapes

\* ------------------------------------------------------------------------
\* Program constants
\* ------------------------------------------------------------------------
render_width == 800
render_height == 600
workgroup_width == 16
workgroup_height == 8
SizeofFloat == 4
Limb == 2^16        \* a uint32_t is held as two 16-bit limbs
WholeSize == -1     \* VK_WHOLE_SIZE (~0ULL), written as -1
BlasDeviceAddress == 1  \* the nonzero address the builder gives BLAS 0

VARIABLES
  NDEBUG,           \* build configuration: TRUE when assert() is compiled out
  pc,               \* position of the host thread in main()
  cur,              \* command buffer the one-time helpers are working on
  buffer,           \* output buffer:  "none" | "created" | "destroyed"
  bufferSizeBytes,  \* byte size of the output buffer
  vertexBuffer,     \* "none" | "created" | "destroyed"
  indexBuffer,      \* "none" | "created" | "destroyed"
  created,          \* per device buffer: number of times it was created
  destroyed,        \* per device buffer: number of allocator.destroy calls
  reader,           \* tinyobj::ObjReader: [valid, vertices, shapes]
  objVertices,      \* flat float list copied from the reader
  objIndices,       \* flat uint32 index list of the first shape
  cmdPool,          \* "none" | "created" | "destroyed"
  cmdState,         \* per command buffer: host-side lifecycle state
  cmds,             \* per command buffer: commands recorded so far
  inFlight,         \* batches submitted to the queue and not yet executed
  done,             \* batches the device has finished executing
  blases,           \* BlasInput descriptions handed to buildBlas
  raytracingBuilder,\* nvvk::RaytracingBuilderKHR: "unset"|"setup"|"destroyed"
  blasAddress,      \* result of getBlasDeviceAddress(0): 0 before buildBlas
  instances,        \* instance descriptors handed to buildTlas
  bindings,         \* descriptor set layout: slot -> [type, stage]
  descriptorSet,    \* slot -> resource reference written into the slot
  descriptorWrites, \* slot -> number of writes made to the slot
  setCount,         \* descriptor sets allocated from the pool
  computePipeline,  \* "none" | "created" | "destroyed"
  data,             \* host mapping of the output buffer: "unmapped"|"mapped"
  outputContents,   \* output buffer memory: "undefined"|"cached"|"visible"
  outFile           \* out.hdr: "none" | "rendered" | "garbage"

inputVars == <<NDEBUG, reader, objVertices, objIndices>>
bufVars == <<buffer, bufferSizeBytes, vertexBuffer, indexBuffer, created,
             destroyed>>
cmdVars == <<cur, cmdPool, cmdState, cmds>>
devVars == <<inFlight, done, outputContents>>
asVars == <<blases, raytracingBuilder, blasAddress, instances>>
descVars == <<bindings, descriptorSet, descriptorWrites, setCount>>
outVars == <<computePipeline, data, outFile>>

vars == <<pc, inputVars, bufVars, cmdVars, devVars, asVars, descVars, outVars>>

\* ------------------------------------------------------------------------
\* Helpers
\* ------------------------------------------------------------------------
CmdBuffers == {"upload", "dispatch"}
BufferNames == {"buffer", "vertexBuffer", "indexBuffer"}
Slots == 0..3

\* x mod 2^32 for a natural x, as a pair of 16-bit limbs <<high, low>>
U32(x) == <<(x \div Limb) % Limb, x % Limb>>

\* static_cast<uint32_t>(n - 1) where n is a size_t: 0 - 1 wraps to 2^64 - 1,
\* whose low 32 bits are all ones
U32Pred(n) == IF n = 0 THEN <<Limb - 1, Limb - 1>> ELSE U32(n - 1)

\* Every sequence over S of length exactly n
RECURSIVE SeqsOfLen(_, _)
SeqsOfLen(S, n) ==
  IF n = 0 THEN {<<>>}
  ELSE {Append(s, x) : s \in SeqsOfLen(S, n - 1), x \in S}

\* Index values a face can name: one more than the largest vertex count, so
\* that an out-of-range index exists for every mesh
IndexValues == 0..MaxVerts

\* Index lists tinyobj produces with triangulation on: length 3 * N
IndexLists == UNION {SeqsOfLen(IndexValues, 3 * n) : n \in 0..MaxTris}

\* Flat vertex lists: 3 floats per vertex (coordinates do not matter here)
VertexLists == {[i \in 1..(3 * m) |-> 0] : m \in 0..MaxVerts}

\* Shape lists: only the first shape's indices are ever read
ShapeLists ==
  {<<>>} \cup
  {<<idx>> \o [i \in 1..extra |-> <<>>] :
      idx \in IndexLists, extra \in 0..(MaxShapes - 1)}

Init ==
  /\ NDEBUG \in BOOLEAN
  /\ pc = "createBuffer"
  /\ cur = "none"
  /\ buffer = "none"
  /\ bufferSizeBytes = 0
  /\ vertexBuffer = "none"
  /\ indexBuffer = "none"
  /\ created = [b \in BufferNames |-> 0]
  /\ destroyed = [b \in BufferNames |-> 0]
  /\ reader = [valid |-> FALSE, vertices |-> <<>>, shapes |-> <<>>]
  /\ objVertices = <<>>
  /\ objIndices = <<>>
  /\ cmdPool = "none"
  /\ cmdState = [c \in CmdBuffers |-> "Idle"]
  /\ cmds = [c \in CmdBuffers |-> <<>>]
  /\ inFlight = {}
  /\ done = {}
  /\ blases = <<>>
  /\ raytracingBuilder = "unset"
  /\ blasAddress = 0
  /\ instances = <<>>
  /\ bindings = <<>>
  /\ descriptorSet = [s \in Slots |-> [resource |-> "none"]]
  /\ descriptorWrites = [s \in Slots |-> 0]
  /\ setCount = 0
  /\ computePipeline = "none"
  /\ data = "unmapped"
  /\ outputContents = "undefined"
  /\ outFile = "none"

\* ------------------------------------------------------------------------
\* main(): output buffer, OBJ loading, input validation
\* ------------------------------------------------------------------------

\* lines 121-132: create the host-visible output buffer
CreateOutputBuffer ==
  /\ pc = "createBuffer"
  /\ bufferSizeBytes' = render_width * render_height * 3 * SizeofFloat
  /\ buffer' = "created"
  /\ created' = [created EXCEPT !["buffer"] = @ + 1]
  /\ pc' = "parse"
  /\ UNCHANGED <<inputVars, vertexBuffer, indexBuffer, destroyed, cmdVars,
                 devVars, asVars, descVars, outVars>>

\* lines 139-143: reader.ParseFromFile; the file's contents are the input
ParseFromFile ==
  /\ pc = "parse"
  /\ \E valid \in BOOLEAN, vs \in VertexLists, shapes \in ShapeLists :
       reader' = [valid |-> valid, vertices |-> vs, shapes |-> shapes]
  /\ pc' = "assertValid"
  /\ UNCHANGED <<NDEBUG, objVertices, objIndices, bufVars, cmdVars, devVars,
                 asVars, descVars, outVars>>

\* assert(cond) of <cassert>: aborts when cond is false unless NDEBUG
AssertPasses(cond) == NDEBUG \/ cond

\* line 144: assert(reader.Valid())
AssertReaderValid ==
  /\ pc = "assertValid"
  /\ pc' = IF AssertPasses(reader.valid) THEN "assertShapes" ELSE "aborted"
  /\ UNCHANGED <<inputVars, bufVars, cmdVars, devVars, asVars, descVars, outVars>>

\* lines 147-149: copy the vertices, assert(objShapes.size() == 1)
AssertOneShape ==
  /\ pc = "assertShapes"
  /\ objVertices' = reader.vertices
  /\ pc' = IF AssertPasses(Len(reader.shapes) = 1) THEN "getIndices"
           ELSE "aborted"
  /\ UNCHANGED <<NDEBUG, reader, objIndices, bufVars, cmdVars, devVars, asVars,
                 descVars, outVars>>

\* lines 150-157: objShape = objShapes[0]; copy its vertex indices.
\* objShapes[0] on an empty vector is undefined behaviour: the process may
\* crash, or read some arbitrary index list.
GetIndices ==
  /\ pc = "getIndices"
  /\ IF Len(reader.shapes) >= 1
       THEN /\ objIndices' = reader.shapes[1]
            /\ pc' = "createCmdPool"
       ELSE \/ /\ pc' = "aborted"
               /\ UNCHANGED objIndices
            \/ /\ objIndices' \in IndexLists
               /\ pc' = "createCmdPool"
  /\ UNCHANGED <<NDEBUG, reader, objVertices, bufVars, cmdVars, devVars, asVars,
                 descVars, outVars>>

\* ------------------------------------------------------------------------
\* Command pool and the one-time command buffer helpers
\* ------------------------------------------------------------------------

\* NVVK_CHECK(result): a failed Vulkan call ends the process
Abort == pc' = "aborted"

\* lines 166-169: vkCreateCommandPool; then line 179 calls the allocate helper
\* for the upload command buffer
CreateCommandPool ==
  /\ pc = "createCmdPool"
  /\ \/ /\ cmdPool' = "created"
        /\ cur' = "upload"
        /\ pc' = "alloc"
     \/ /\ Abort
        /\ UNCHANGED <<cmdPool, cur>>
  /\ UNCHANGED <<inputVars, bufVars, cmdState, cmds, devVars, asVars, descVars,
                 outVars>>

\* lines 47-52: vkAllocateCommandBuffers
AllocateCommandBuffers ==
  /\ pc = "alloc"
  /\ \/ /\ cmdState' = [cmdState EXCEPT ![cur] = "Allocated"]
        /\ pc' = "begin"
     \/ /\ Abort
        /\ UNCHANGED cmdState
  /\ UNCHANGED <<inputVars, bufVars, cur, cmdPool, cmds, devVars, asVars,
                 descVars, outVars>>

\* Where AllocateAndBeginOneTimeCommandBuffer returns to (lines 179, 331)
AfterBegin(c) == IF c = "upload" THEN "createMeshBuffers" ELSE "bindPipeline"

\* lines 53-56: vkBeginCommandBuffer, return cmdBuffer
BeginCommandBuffer ==
  /\ pc = "begin"
  /\ \/ /\ cmdState' = [cmdState EXCEPT ![cur] = "Recording"]
        /\ pc' = AfterBegin(cur)
     \/ /\ Abort
        /\ UNCHANGED cmdState
  /\ UNCHANGED <<inputVars, bufVars, cur, cmdPool, cmds, devVars, asVars,
                 descVars, outVars>>

\* line 65: vkEndCommandBuffer
EndCommandBuffer ==
  /\ pc = "end"
  /\ \/ /\ cmdState' = [cmdState EXCEPT ![cur] = "Ended"]
        /\ pc' = "submit"
     \/ /\ Abort
        /\ UNCHANGED cmdState
  /\ UNCHANGED <<inputVars, bufVars, cur, cmdPool, cmds, devVars, asVars,
                 descVars, outVars>>

\* lines 66-67: vkQueueSubmit of the one command buffer, no semaphores
QueueSubmit ==
  /\ pc = "submit"
  /\ \/ /\ cmdState' = [cmdState EXCEPT ![cur] = "Submitted"]
        /\ inFlight' = inFlight \cup {cur}
        /\ pc' = "wait"
     \/ /\ Abort
        /\ UNCHANGED <<cmdState, inFlight>>
  /\ UNCHANGED <<inputVars, bufVars, cur, cmdPool, cmds, done, outputContents,
                 asVars, descVars, outVars>>

\* Variant: the wait returns without looking at the queue
QueueIdle_NoWait == TRUE

\* vkQueueWaitIdle returns VK_SUCCESS only once the queue has no work left
QueueIdle == inFlight = {}

\* line 68: vkQueueWaitIdle blocks until the queue is idle, or fails
QueueWaitIdle ==
  /\ pc = "wait"
  /\ \/ /\ QueueIdle
        /\ cmdState' = [cmdState EXCEPT ![cur] = "Complete"]
        /\ pc' = "free"
     \/ /\ Abort
        /\ UNCHANGED cmdState
  /\ UNCHANGED <<inputVars, bufVars, cur, cmdPool, cmds, devVars, asVars,
                 descVars, outVars>>

\* Where EndSubmitWaitAndFreeCommandBuffer returns to (lines 189, 380)
AfterFree(c) == IF c = "upload" THEN "finalizeStaging" ELSE "map"

\* line 69: vkFreeCommandBuffers, return
FreeCommandBuffers ==
  /\ pc = "free"
  /\ cmdState' = [cmdState EXCEPT ![cur] = "Freed"]
  /\ pc' = AfterFree(cur)
  /\ cur' = "none"
  /\ UNCHANGED <<inputVars, bufVars, cmdPool, cmds, devVars, asVars, descVars,
                 outVars>>

\* ------------------------------------------------------------------------
\* The device queue
\* ------------------------------------------------------------------------

\* TRUE when command sequence cs holds a compute-write to host-read memory
\* barrier recorded after a dispatch
BarrierAfterDispatch(cs) ==
  \E i, j \in 1..Len(cs) :
    /\ i < j
    /\ cs[i].op = "Dispatch"
    /\ cs[j].op = "PipelineBarrier"
    /\ cs[j].srcStage = "COMPUTE_SHADER" /\ cs[j].srcAccess = "SHADER_WRITE"
    /\ cs[j].dstStage = "HOST" /\ cs[j].dstAccess = "HOST_READ"

HasDispatch(cs) == \E i \in 1..Len(cs) : cs[i].op = "Dispatch"

\* What the output buffer memory holds once the dispatch batch has executed
ContentsAfter(cs) ==
  IF ~HasDispatch(cs) THEN outputContents
  ELSE IF BarrierAfterDispatch(cs) THEN "visible" ELSE "cached"

\* The device finishes executing one submitted batch
DeviceExecute ==
  /\ \E b \in inFlight :
       /\ inFlight' = inFlight \ {b}
       /\ done' = done \cup {b}
       /\ outputContents' = IF b = "dispatch" THEN ContentsAfter(cmds[b])
                            ELSE outputContents
  /\ UNCHANGED <<pc, inputVars, bufVars, cmdVars, asVars, descVars, outVars>>

\* ------------------------------------------------------------------------
\* Geometry upload
\* ------------------------------------------------------------------------

\* lines 182-186: allocator.createBuffer(uploadCmdBuffer, ...) twice: creates
\* the device buffers and records the staging copies
CreateMeshBuffers ==
  /\ pc = "createMeshBuffers"
  /\ vertexBuffer' = "created"
  /\ indexBuffer' = "created"
  /\ cmds' = [cmds EXCEPT !["upload"] =
                @ \o <<[op |-> "CopyBuffer", dst |-> "vertexBuffer"],
                       [op |-> "CopyBuffer", dst |-> "indexBuffer"]>>]
  /\ created' = [created EXCEPT !["vertexBuffer"] = @ + 1,
                                 !["indexBuffer"] = @ + 1]
  /\ pc' = "end"
  /\ UNCHANGED <<inputVars, buffer, bufferSizeBytes, destroyed, cur, cmdPool,
                 cmdState, devVars, asVars, descVars, outVars>>

\* line 191: allocator.finalizeAndReleaseStaging()
FinalizeStaging ==
  /\ pc = "finalizeStaging"
  /\ pc' = "describeBlas"
  /\ UNCHANGED <<inputVars, bufVars, cmdVars, devVars, asVars, descVars,
                 outVars>>

\* ------------------------------------------------------------------------
\* Acceleration structures
\* ------------------------------------------------------------------------

\* Variant: the vertex count is used where the largest vertex index belongs
MaxVertex_Count(vs) == U32(Len(vs) \div 3)

\* line 207: static_cast<uint32_t>(objVertices.size() / 3 - 1)
MaxVertex(vs) == U32Pred(Len(vs) \div 3)

\* line 221: static_cast<uint32_t>(objIndices.size() / 3)
PrimitiveCount(is) == U32(Len(is) \div 3)

\* lines 195-228: describe the one BLAS input
DescribeBlas ==
  /\ pc = "describeBlas"
  /\ blases' = <<[vertexFormat |-> "R32G32B32_SFLOAT",
                  vertexStride |-> 3 * SizeofFloat,
                  maxVertex |-> MaxVertex(objVertices),
                  indexType |-> "UINT32",
                  flags |-> "OPAQUE",
                  primitiveCount |-> PrimitiveCount(objIndices),
                  primitiveOffset |-> 0,
                  firstVertex |-> 0,
                  transformOffset |-> 0]>>
  /\ pc' = "buildBlas"
  /\ UNCHANGED <<inputVars, bufVars, cmdVars, devVars, raytracingBuilder,
                 blasAddress, instances, descVars, outVars>>

\* lines 230-232: raytracingBuilder.setup, buildBlas: the builder creates the
\* structure and submits its build to the queue
BuildBlasSubmit ==
  /\ pc = "buildBlas"
  /\ raytracingBuilder' = "setup"
  /\ blasAddress' = BlasDeviceAddress
  /\ inFlight' = inFlight \cup {"blas"}
  /\ pc' = "buildBlasWait"
  /\ UNCHANGED <<inputVars, bufVars, cmdVars, done, outputContents, blases,
                 instances, descVars, outVars>>

\* buildBlas and buildTlas return once the builder's submission has finished
\* (the builder is library code outside this file; its submit-and-wait is
\* taken from the design's description of the builder)
BuilderWaitDone == inFlight = {}

\* line 232: buildBlas returns
BuildBlasWait ==
  /\ pc = "buildBlasWait"
  /\ BuilderWaitDone
  /\ pc' = "makeInstance"
  /\ UNCHANGED <<inputVars, bufVars, cmdVars, devVars, asVars, descVars,
                 outVars>>

\* Variant: the instance is left zero-initialised, without the BLAS address
InstanceDesc_NullRef ==
  [accelerationStructureReference |-> 0,
   transform |-> "identity",
   instanceCustomIndex |-> 0,
   instanceShaderBindingTableRecordOffset |-> 0,
   flags |-> "TRIANGLE_FACING_CULL_DISABLE",
   mask |-> 255]

\* lines 237-245: the instance descriptor; its reference is what
\* raytracingBuilder.getBlasDeviceAddress(0) returns
InstanceDesc ==
  [accelerationStructureReference |-> blasAddress,
   transform |-> "identity",
   instanceCustomIndex |-> 0,
   instanceShaderBindingTableRecordOffset |-> 0,
   flags |-> "TRIANGLE_FACING_CULL_DISABLE",
   mask |-> 255]

\* lines 235-247: one instance of BLAS 0 at the identity transform
MakeInstance ==
  /\ pc = "makeInstance"
  /\ instances' = <<InstanceDesc>>
  /\ pc' = "buildTlas"
  /\ UNCHANGED <<inputVars, bufVars, cmdVars, devVars, blases,
                 raytracingBuilder, blasAddress, descVars, outVars>>

\* line 248: buildTlas submits the top-level build
BuildTlasSubmit ==
  /\ pc = "buildTlas"
  /\ inFlight' = inFlight \cup {"tlas"}
  /\ pc' = "buildTlasWait"
  /\ UNCHANGED <<inputVars, bufVars, cmdVars, done, outputContents, asVars,
                 descVars, outVars>>

\* line 248: buildTlas returns
BuildTlasWait ==
  /\ pc = "buildTlasWait"
  /\ BuilderWaitDone
  /\ pc' = "initDescriptors"
  /\ UNCHANGED <<inputVars, bufVars, cmdVars, devVars, asVars, descVars,
                 outVars>>

\* ------------------------------------------------------------------------
\* Descriptor set and pipeline
\* ------------------------------------------------------------------------

\* lines 261-264: the four addBinding calls
LayoutBindings ==
  [s \in Slots |->
     [type |-> IF s = 1 THEN "ACCELERATION_STRUCTURE" ELSE "STORAGE_BUFFER",
      count |-> 1,
      stage |-> {"COMPUTE"}]]

\* lines 260-270: declare the bindings, initLayout, initPool(1), initPipeLayout
InitDescriptors ==
  /\ pc = "initDescriptors"
  /\ bindings' = LayoutBindings
  /\ setCount' = 1
  /\ pc' = "updateDescriptors"
  /\ UNCHANGED <<inputVars, bufVars, cmdVars, devVars, asVars, descriptorSet,
                 descriptorWrites, outVars>>

\* Variant: the vertex and index buffers are written to each other's slot
DescriptorWrite_Swapped(binding) ==
  CASE binding = 0 -> [resource |-> "buffer", range |-> bufferSizeBytes]
    [] binding = 1 -> [resource |-> "tlas", accelerationStructureCount |-> 1]
    [] binding = 2 -> [resource |-> "indexBuffer", range |-> WholeSize]
    [] binding = 3 -> [resource |-> "vertexBuffer", range |-> WholeSize]

\* lines 276-292: the four VkWriteDescriptorSet entries, by binding number
DescriptorWrite(binding) ==
  CASE binding = 0 -> [resource |-> "buffer", range |-> bufferSizeBytes]
    [] binding = 1 -> [resource |-> "tlas", accelerationStructureCount |-> 1]
    [] binding = 2 -> [resource |-> "vertexBuffer", range |-> WholeSize]
    [] binding = 3 -> [resource |-> "indexBuffer", range |-> WholeSize]

\* lines 276-296: vkUpdateDescriptorSets with the four writes
UpdateDescriptorSets ==
  /\ pc = "updateDescriptors"
  /\ descriptorSet' = [s \in Slots |-> DescriptorWrite(s)]
  /\ descriptorWrites' = [s \in Slots |-> descriptorWrites[s] + 1]
  /\ pc' = "createPipeline"
  /\ UNCHANGED <<inputVars, bufVars, cmdVars, devVars, asVars, bindings,
                 setCount, outVars>>

\* lines 303-322: shader module and vkCreateComputePipelines; then line 331
\* calls the allocate helper for the dispatch command buffer
CreatePipeline ==
  /\ pc = "createPipeline"
  /\ \/ /\ computePipeline' = "created"
        /\ cur' = "dispatch"
        /\ pc' = "alloc"
     \/ /\ Abort
        /\ UNCHANGED <<computePipeline, cur>>
  /\ UNCHANGED <<inputVars, bufVars, cmdPool, cmdState, cmds, devVars, asVars,
                 descVars, data, outFile>>

\* ------------------------------------------------------------------------
\* Dispatch recording
\* ------------------------------------------------------------------------

\* x mod 2^32 as a number, for a natural x
Wrap32(x) == ((x \div Limb) % Limb) * Limb + (x % Limb)

\* Variant: rounds up by always adding one group
GroupCount_PlusOne(size, group) == Wrap32(Wrap32(size) \div group + 1)

\* lines 351-352: (uint32_t(size) + group - 1) / group in uint32_t arithmetic
GroupCount(size, group) == Wrap32(Wrap32(size) + group - 1) \div group

Record(c) == cmds' = [cmds EXCEPT !["dispatch"] = Append(@, c)]

\* line 339: vkCmdBindPipeline
CmdBindPipeline ==
  /\ pc = "bindPipeline"
  /\ Record([op |-> "BindPipeline", bindPoint |-> "COMPUTE"])
  /\ pc' = "bindDescriptorSets"
  /\ UNCHANGED <<inputVars, bufVars, cur, cmdPool, cmdState, devVars, asVars,
                 descVars, outVars>>

\* Variant: the set is bound at slot-group 1
BindSetsCmd_Slot1 ==
  [op |-> "BindDescriptorSets", bindPoint |-> "COMPUTE",
   firstSet |-> 1, setCount |-> 1]

\* lines 343-344: arguments of vkCmdBindDescriptorSets: first set 0, one set
BindSetsCmd ==
  [op |-> "BindDescriptorSets", bindPoint |-> "COMPUTE",
   firstSet |-> 0, setCount |-> 1]

\* lines 342-344: vkCmdBindDescriptorSets
CmdBindDescriptorSets ==
  /\ pc = "bindDescriptorSets"
  /\ Record(BindSetsCmd)
  /\ pc' = "dispatch"
  /\ UNCHANGED <<inputVars, bufVars, cur, cmdPool, cmdState, devVars, asVars,
                 descVars, outVars>>

\* lines 351-352: vkCmdDispatch
CmdDispatch ==
  /\ pc = "dispatch"
  /\ Record([op |-> "Dispatch",
             x |-> GroupCount(render_width, workgroup_width),
             y |-> GroupCount(render_height, workgroup_height),
             z |-> 1])
  /\ pc' = "barrier"
  /\ UNCHANGED <<inputVars, bufVars, cur, cmdPool, cmdState, devVars, asVars,
                 descVars, outVars>>

\* Variant: the barrier targets the transfer stage instead of the host
MemoryBarrierCmd_Transfer ==
  [op |-> "PipelineBarrier",
   srcStage |-> "COMPUTE_SHADER", dstStage |-> "TRANSFER",
   srcAccess |-> "SHADER_WRITE", dstAccess |-> "TRANSFER_READ",
   memoryBarrierCount |-> 1]

\* lines 364-372: arguments of vkCmdPipelineBarrier
MemoryBarrierCmd ==
  [op |-> "PipelineBarrier",
   srcStage |-> "COMPUTE_SHADER", dstStage |-> "HOST",
   srcAccess |-> "SHADER_WRITE", dstAccess |-> "HOST_READ",
   memoryBarrierCount |-> 1]

\* lines 364-372: vkCmdPipelineBarrier with one global memory barrier; then
\* line 380 calls the end/submit/wait/free helper
CmdPipelineBarrier ==
  /\ pc = "barrier"
  /\ Record(MemoryBarrierCmd)
  /\ pc' = "end"
  /\ UNCHANGED <<inputVars, bufVars, cur, cmdPool, cmdState, devVars, asVars,
                 descVars, outVars>>

\* ------------------------------------------------------------------------
\* Readback
\* ------------------------------------------------------------------------

\* line 383: allocator.map(buffer)
Map ==
  /\ pc = "map"
  /\ data' = "mapped"
  /\ pc' = "writeHdr"
  /\ UNCHANGED <<inputVars, bufVars, cmdVars, devVars, asVars, descVars,
                 computePipeline, outFile>>

\* line 384: stbi_write_hdr reads the mapping; what it reads is the render
\* only if the device's writes have been made visible to the host
WriteHdr ==
  /\ pc = "writeHdr"
  /\ outFile' = IF outputContents = "visible" THEN "rendered" ELSE "garbage"
  /\ pc' = "unmap"
  /\ UNCHANGED <<inputVars, bufVars, cmdVars, devVars, asVars, descVars,
                 computePipeline, data>>

\* line 385: allocator.unmap(buffer)
Unmap ==
  /\ pc = "unmap"
  /\ data' = "unmapped"
  /\ pc' = "destroyPipeline"
  /\ UNCHANGED <<inputVars, bufVars, cmdVars, devVars, asVars, descVars,
                 computePipeline, outFile>>

\* ------------------------------------------------------------------------
\* Cleanup
\* ------------------------------------------------------------------------

\* lines 393-394: vkDestroyPipeline, vkDestroyShaderModule
DestroyPipeline ==
  /\ pc = "destroyPipeline"
  /\ computePipeline' = "destroyed"
  /\ pc' = "deinitDescriptors"
  /\ UNCHANGED <<inputVars, bufVars, cmdVars, devVars, asVars, descVars,
                 data, outFile>>

\* line 395: descriptorSetContainer.deinit()
DeinitDescriptors ==
  /\ pc = "deinitDescriptors"
  /\ setCount' = 0
  /\ pc' = "destroyBuilder"
  /\ UNCHANGED <<inputVars, bufVars, cmdVars, devVars, asVars, bindings,
                 descriptorSet, descriptorWrites, outVars>>

\* line 396: raytracingBuilder.destroy()
DestroyBuilder ==
  /\ pc = "destroyBuilder"
  /\ raytracingBuilder' = "destroyed"
  /\ pc' = "destroyVertexBuffer"
  /\ UNCHANGED <<inputVars, bufVars, cmdVars, devVars, blases, blasAddress,
                 instances, descVars, outVars>>

\* line 397: allocator.destroy(vertexBuffer)
DestroyVertexBuffer ==
  /\ pc = "destroyVertexBuffer"
  /\ vertexBuffer' = "destroyed"
  /\ destroyed' = [destroyed EXCEPT !["vertexBuffer"] = @ + 1]
  /\ pc' = "destroyIndexBuffer"
  /\ UNCHANGED <<inputVars, buffer, bufferSizeBytes, indexBuffer, created,
                 cmdVars, devVars, asVars, descVars, outVars>>

\* Variant: the second destroy call names the vertex buffer again
DestroyIndexBuffer_VertexAgain ==
  /\ pc = "destroyIndexBuffer"
  /\ vertexBuffer' = "destroyed"
  /\ destroyed' = [destroyed EXCEPT !["vertexBuffer"] = @ + 1]
  /\ pc' = "destroyCmdPool"
  /\ UNCHANGED <<inputVars, buffer, bufferSizeBytes, indexBuffer, created,
                 cmdVars, devVars, asVars, descVars, outVars>>

\* line 398: allocator.destroy(indexBuffer)
DestroyIndexBuffer ==
  /\ pc = "destroyIndexBuffer"
  /\ indexBuffer' = "destroyed"
  /\ destroyed' = [destroyed EXCEPT !["indexBuffer"] = @ + 1]
  /\ pc' = "destroyCmdPool"
  /\ UNCHANGED <<inputVars, buffer, bufferSizeBytes, vertexBuffer, created,
                 cmdVars, devVars, asVars, descVars, outVars>>

\* line 399: vkDestroyCommandPool
DestroyCommandPool ==
  /\ pc = "destroyCmdPool"
  /\ cmdPool' = "destroyed"
  /\ pc' = "destroyBuffer"
  /\ UNCHANGED <<inputVars, bufVars, cur, cmdState, cmds, devVars, asVars,
                 descVars, outVars>>

\* lines 400-402: allocator.destroy(buffer), allocator.deinit, context.deinit
DestroyOutputBuffer ==
  /\ pc = "destroyBuffer"
  /\ buffer' = "destroyed"
  /\ destroyed' = [destroyed EXCEPT !["buffer"] = @ + 1]
  /\ pc' = "done"
  /\ UNCHANGED <<inputVars, bufferSizeBytes, vertexBuffer, indexBuffer, created,
                 cmdVars, devVars, asVars, descVars, outVars>>

Next ==
  \/ CreateOutputBuffer
  \/ ParseFromFile
  \/ AssertReaderValid
  \/ AssertOneShape
  \/ GetIndices
  \/ CreateCommandPool
  \/ AllocateCommandBuffers
  \/ BeginCommandBuffer
  \/ EndCommandBuffer
  \/ QueueSubmit
  \/ QueueWaitIdle
  \/ FreeCommandBuffers
  \/ DeviceExecute
  \/ CreateMeshBuffers
  \/ FinalizeStaging
  \/ DescribeBlas
  \/ BuildBlasSubmit
  \/ BuildBlasWait
  \/ MakeInstance
  \/ BuildTlasSubmit
  \/ BuildTlasWait
  \/ InitDescriptors
  \/ UpdateDescriptorSets
  \/ CreatePipeline
  \/ CmdBindPipeline
  \/ CmdBindDescriptorSets
  \/ CmdDispatch
  \/ CmdPipelineBarrier
  \/ Map
  \/ WriteHdr
  \/ Unmap
  \/ DestroyPipeline
  \/ DeinitDescriptors
  \/ DestroyBuilder
  \/ DestroyVertexBuffer
  \/ DestroyIndexBuffer
  \/ DestroyCommandPool
  \/ DestroyOutputBuffer

\* ------------------------------------------------------------------------
\* Properties
\* ------------------------------------------------------------------------

\* State of the dispatch controller, read off the dispatch command buffer:
\* Idle until vkBeginCommandBuffer, Recording until vkQueueSubmit, Submitted
\* until vkQueueWaitIdle returns, Complete afterwards
DispatchState ==
  CASE cmdState["dispatch"] \in {"Idle", "Allocated"} -> "Idle"
    [] cmdState["dispatch"] \in {"Recording", "Ended"} -> "Recording"
    [] cmdState["dispatch"] = "Submitted" -> "Submitted"
    [] cmdState["dispatch"] \in {"Complete", "Freed"} -> "Complete"

Ops(cs) == [i \in 1..Len(cs) |-> cs[i].op]

IsPrefix(a, b) == Len(a) <= Len(b) /\ \A i \in 1..Len(a) : a[i] = b[i]

\* C1: whenever the output buffer is mapped or has been handed to the image
\* encoder, the dispatch command sequence holds the compute-write to
\* host-read barrier after the dispatch, has been submitted, has finished on
\* the device, and the host has seen the queue idle (controller Complete);
\* what the host reads is the render made visible by the barrier.
C1_ReadAfterBarrier ==
  (data = "mapped" \/ outFile # "none") =>
    /\ DispatchState = "Complete"
    /\ "dispatch" \in done
    /\ "dispatch" \notin inFlight
    /\ BarrierAfterDispatch(cmds["dispatch"])
    /\ outputContents = "visible"
    /\ outFile \in {"none", "rendered"}

C1_Witness == data = "mapped" /\ outFile = "rendered"

\* The batches that must have finished before batch b is submitted
Before(b) ==
  CASE b = "upload" -> {}
    [] b = "blas" -> {"upload"}
    [] b = "tlas" -> {"upload", "blas"}
    [] b = "dispatch" -> {"upload", "blas", "tlas"}

\* C2: once the instance list exists or the top-level build has been
\* submitted, the bottom-level build has finished on the device, and the
\* instance references the address the builder reported for that finished
\* bottom-level structure.
C2_TlasAfterBlas ==
  (instances # <<>> \/ "tlas" \in (inFlight \cup done)) =>
    /\ "blas" \in done
    /\ "blas" \notin inFlight
    /\ Len(instances) = 1
    /\ instances[1].accelerationStructureReference = BlasDeviceAddress

C2_Witness == "tlas" \in inFlight /\ pc = "buildTlasWait"

\* C3: at most one batch is in flight; while a batch is in flight the host
\* is inside the blocking wait that follows its submission (or the process
\* has aborted out of that wait); and a batch is submitted only after every
\* batch of the earlier phases has finished, so the readback starts with an
\* idle queue.
C3_NoOverlap ==
  /\ Cardinality(inFlight) <= 1
  /\ inFlight # {} =>
       pc \in {"wait", "buildBlasWait", "buildTlasWait", "aborted"}
  /\ \A b \in inFlight \cup done : Before(b) \subseteq done
  /\ pc \in {"map", "writeHdr", "unmap"} =>
       done = {"upload", "blas", "tlas", "dispatch"}

C3_Witness == inFlight = {"dispatch"} /\ pc = "wait"

\* The command sequence the dispatch controller records
ExpectedOps == <<"BindPipeline", "BindDescriptorSets", "Dispatch",
                 "PipelineBarrier">>

C4_Inv ==
  LET cs == cmds["dispatch"] IN
  /\ IsPrefix(Ops(cs), ExpectedOps)
  /\ DispatchState = "Idle" => cs = <<>>
  /\ DispatchState \in {"Submitted", "Complete"} => Ops(cs) = ExpectedOps
  /\ \A i \in 1..Len(cs) :
       /\ cs[i].op = "BindPipeline" => cs[i].bindPoint = "COMPUTE"
       /\ cs[i].op = "BindDescriptorSets" => cs[i].firstSet = 0
       /\ cs[i].op = "Dispatch" => cs[i].z = 1
       /\ cs[i].op = "PipelineBarrier" =>
            /\ cs[i].memoryBarrierCount = 1
            /\ cs[i].srcStage = "COMPUTE_SHADER"
            /\ cs[i].srcAccess = "SHADER_WRITE"
            /\ cs[i].dstStage = "HOST"
            /\ cs[i].dstAccess = "HOST_READ"
  /\ pc = "done" => DispatchState = "Complete"

C4_Step ==
  \/ DispatchState' = DispatchState
  \/ <<DispatchState, DispatchState'>> \in
       {<<"Idle", "Recording">>, <<"Recording", "Submitted">>,
        <<"Submitted", "Complete">>}

\* C4: the dispatch controller only ever moves Idle -> Recording ->
\* Submitted -> Complete, one step at a time and never backwards, and a run
\* that reaches the end has reached Complete; what is recorded is always a
\* prefix of bind pipeline, bind set at slot-group 0, dispatch, one global
\* memory barrier (compute/shader-write to host/host-read), and the whole
\* sequence has been recorded by the time it is submitted.
C4_DispatchOrder == [](C4_Inv) /\ [][C4_Step]_vars

C4_Witness == DispatchState = "Complete" /\ pc = "done"


\* Number of vertices of the mesh, and whether every index names one
NumVertices == Len(objVertices) \div 3

IndicesInRange == \A i \in 1..Len(objIndices) : objIndices[i] < NumVertices

BlasBuildIssued == "blas" \in (inFlight \cup done)

\* C5: a bottom-level build is only ever issued for a mesh whose indices
\* all satisfy 0 <= index < M.
C5_Original == BlasBuildIssued => IndicesInRange

\* The file has been parsed and the validations are about to run or have run
Parsed == pc \notin {"createBuffer", "parse"}

NoDeviceResource ==
  /\ buffer = "none" /\ vertexBuffer = "none" /\ indexBuffer = "none"
  /\ cmdPool = "none"
  /\ raytracingBuilder = "unset"

\* C6: when either input validation is evaluated no device buffer, command
\* pool or acceleration structure exists, and after a failed validation
\* none exists either.
C6_Original ==
  /\ pc \in {"assertValid", "assertShapes"} => NoDeviceResource
  /\ (Parsed /\ (~reader.valid \/ Len(reader.shapes) # 1)) => NoDeviceResource

\* C7: an input-shape violation is fatal at the validation that detects it:
\* after a failed parse the process does not get past assert(reader.Valid()),
\* with a shape count other than one it does not get past the shape-count
\* assertion, no output image is written in either case, and a process that
\* aborted holds no mapping and has written no image.
C7_Original ==
  /\ pc = "aborted" => (data = "unmapped" /\ outFile = "none")
  /\ (Parsed /\ ~reader.valid) => pc \in {"assertValid", "aborted"}
  /\ (Parsed /\ Len(reader.shapes) # 1) =>
       pc \in {"assertValid", "assertShapes", "aborted"}
  /\ (Parsed /\ (~reader.valid \/ Len(reader.shapes) # 1)) => outFile = "none"

\* Value of a uint32 held as limbs, when it fits the model's integers
Val(u) == u[1] * Limb + u[2]

AllOnes == <<Limb - 1, Limb - 1>>

\* C8: for a vertex list of 3*M floats and an index list of length L, the
\* build range has primitiveCount = L/3 and the geometry has maxVertex =
\* M - 1 (modulo 2^32: all ones for M = 0), and primitiveOffset, firstVertex
\* and transformOffset are zero.
C8_BuildRange ==
  blases # <<>> =>
    /\ Len(blases) = 1
    /\ 3 * Val(blases[1].primitiveCount) = Len(objIndices)
    /\ Len(objVertices) >= 3 =>
         3 * (Val(blases[1].maxVertex) + 1) = Len(objVertices)
    /\ Len(objVertices) = 0 => blases[1].maxVertex = AllOnes
    /\ blases[1].primitiveOffset = 0
    /\ blases[1].firstVertex = 0
    /\ blases[1].transformOffset = 0

C8_Witness ==
  /\ Len(blases) = 1
  /\ Len(objVertices) = 3
  /\ Len(objIndices) = 3
  /\ "blas" \in done

\* C9: the recorded dispatch has z = 1 and group counts gx, gy with
\* gx * group_width >= width > (gx - 1) * group_width and likewise for the
\* height, the rounded-up sums stay below 2^32, and for 800x600 with 16x8
\* groups the counts are 50 x 75 x 1.
C9_GroupGrid ==
  \A i \in 1..Len(cmds["dispatch"]) :
    LET c == cmds["dispatch"][i] IN
    c.op = "Dispatch" =>
      /\ c.x * workgroup_width >= render_width
      /\ render_width > (c.x - 1) * workgroup_width
      /\ c.y * workgroup_height >= render_height
      /\ render_height > (c.y - 1) * workgroup_height
      /\ c.z = 1
      /\ (render_width + workgroup_width - 1) \div Limb < Limb
      /\ (render_height + workgroup_height - 1) \div Limb < Limb
      /\ <<c.x, c.y, c.z>> = <<50, 75, 1>>

C9_Witness == HasDispatch(cmds["dispatch"]) /\ "dispatch" \in done

DispatchRecorded ==
  /\ HasDispatch(cmds["dispatch"])
  /\ cmdState["dispatch"] \in {"Recording", "Ended", "Submitted", "Complete"}

C10_Inv ==
  DispatchRecorded =>
    /\ setCount = 1
    /\ DOMAIN bindings = 0..3
    /\ \A s \in 0..3 :
         /\ bindings[s].stage = {"COMPUTE"}
         /\ bindings[s].count = 1
         /\ descriptorWrites[s] = 1
    /\ descriptorSet[0].resource = "buffer"
    /\ descriptorSet[0].range = render_width * render_height * 3 * 4
    /\ descriptorSet[1].resource = "tlas"
    /\ descriptorSet[2].resource = "vertexBuffer"
    /\ descriptorSet[2].range = WholeSize
    /\ descriptorSet[3].resource = "indexBuffer"
    /\ descriptorSet[3].range = WholeSize

C10_Step ==
  \A s \in 0..3 :
    descriptorWrites[s] >= 1 =>
      /\ descriptorSet'[s] = descriptorSet[s]
      /\ descriptorWrites'[s] = descriptorWrites[s]

\* C10: while the dispatch is recorded, one binding set is allocated, it
\* has exactly the slots 0..3, each visible to the compute stage only and
\* written exactly once: 0 = output buffer with range width*height*3*4,
\* 1 = top-level structure, 2 = vertex buffer (whole size), 3 = index buffer
\* (whole size); a slot that has been written is never written again.
C10_BindingTable == [](C10_Inv) /\ [][C10_Step]_vars

C10_Witness == DispatchRecorded /\ cmdState["dispatch"] = "Submitted"

\* State of a device buffer by name
BufferState(b) ==
  CASE b = "buffer" -> buffer
    [] b = "vertexBuffer" -> vertexBuffer
    [] b = "indexBuffer" -> indexBuffer

\* The device buffers a submitted batch reads or writes: the upload copies
\* into the mesh buffers, the bottom-level build reads them by address, the
\* dispatch reaches the buffers written into the descriptor set
Refs(batch) ==
  CASE batch = "upload" -> {"vertexBuffer", "indexBuffer"}
    [] batch = "blas" -> {"vertexBuffer", "indexBuffer"}
    [] batch = "tlas" -> {}
    [] batch = "dispatch" ->
         {descriptorSet[s].resource : s \in Slots} \cap BufferNames

C11_Inv ==
  /\ \A b \in BufferNames :
       /\ created[b] <= 1
       /\ destroyed[b] <= 1
       /\ destroyed[b] <= created[b]
       /\ BufferState(b) = "none" <=> created[b] = 0
       /\ BufferState(b) = "destroyed" <=> destroyed[b] = 1
       /\ pc = "done" => (created[b] = 1 /\ destroyed[b] = 1)
  /\ \A batch \in inFlight : \A b \in Refs(batch) : BufferState(b) = "created"
  /\ data = "mapped" => buffer = "created"
  /\ (\E b \in BufferNames : BufferState(b) = "destroyed") =>
       (inFlight = {} /\ data = "unmapped")

C11_Step ==
  (\E b \in BufferNames : BufferState(b) = "destroyed") =>
    /\ cmds' = cmds
    /\ descriptorSet' = descriptorSet
    /\ inFlight' = inFlight
    /\ data' = data
    /\ \A b \in BufferNames :
         BufferState(b) = "destroyed" =>
           (created'[b] = created[b] /\ destroyed'[b] = destroyed[b])

\* C11: each of the output, vertex and index buffers is created at most
\* once and destroyed at most once, only after it was created, and a run
\* that reaches the end has created and destroyed each exactly once; every
\* buffer a batch in flight refers to is alive, the mapped output buffer is
\* alive, and from the first destroy on nothing is in flight, no mapping is
\* held, and no command is recorded, no descriptor written, no batch
\* submitted and no mapping taken.
C11_BufferLifecycle == [](C11_Inv) /\ [][C11_Step]_vars

C11_Witness ==
  /\ pc = "done"
  /\ \A b \in BufferNames : created[b] = 1 /\ destroyed[b] = 1
  /\ done = {"upload", "blas", "tlas", "dispatch"}

Spec == Init /\ [][Next]_vars
====
